---- MODULE Spec2Model ----
(***************************************************************************)
(* Authorization and visibility model of the Enterprise Resource           *)
(* Management System backend (Django / Django REST framework).             *)
(*                                                                         *)
(* The relational store is modelled as the tables the handlers read and    *)
(* write: projects, project_members, project_invitations, tasks,           *)
(* timesheets, login_attempts and the sessions.  Every request handler is  *)
(* one action; the response of the last request is kept in resp so that    *)
(* outcomes can be stated.                                                 *)
(***************************************************************************)
EXTENDS Integers, Sequences, FiniteSets, Bags, TLC

None == "None"

(* ---------------------------- users -------------------------------------*)
\* Three accounts: one system administrator and two employees.
Users == {"a", "u", "v"}

\* User.role (ROLE_CHOICES: ADMIN, EMPLOYEE).
RoleOf == [x \in Users |-> IF x = "a" THEN "ADMIN" ELSE "EMPLOYEE"]

\* The users table: role and is_active of every account.  Only the requests
\* of UserViewSet change it.
InitAccounts == [x \in Users |-> [role |-> RoleOf[x], is_active |-> TRUE]]

\* User.is_admin
is_admin_Employee(user) == RoleOf[user] = "EMPLOYEE"
is_admin(user) == RoleOf[user] = "ADMIN"

\* An e-mail address is <<local part, written in upper case?>>.  Accounts
\* store lower-case addresses; "z" belongs to nobody.
EmailNames == {"v", "z"}
EmailInputs == {<<"v", FALSE>>, <<"v", TRUE>>, <<"z", FALSE>>}
EmailOf == [x \in Users |-> <<x, FALSE>>]

\* str.lower()
Lower(e) == <<e[1], FALSE>>

\* Equality of two strings as the MySQL connection collation
\* utf8mb4_unicode_ci compares them: case-insensitively.
CiEqBinary(x, y) == x = y
CiEq(x, y) == x[1] = y[1]

(* ---------------------------- bounds ------------------------------------*)
ProjectIds == {"p1", "p2"}
\* Identifiers the create request hands out in the write specifications.
NewProjectIds == {"p1"}
MaxMembers == 2      \* rows in project_members
\* Primary keys (and tokens) of project_invitations rows; a key is free
\* again once its row is deleted.
InvIds == {1, 2}
MaxTime == 8         \* days the clock runs
MaxBatch == 2        \* e-mails in one invite request

\* ProjectMember.ROLE_CHOICES as far as the requests of the model use them.
MemberRoles == {"LEAD", "DEVELOPER"}

\* ProjectInvitation.save: expiry is 7 days after creation.
InvitationDays == 7

VARIABLES projects, members, invitations, now, tasks, timesheets, approvals,
          login_attempts, sessions, accounts, in_flight, audit_logs, task_history, resp

vars == <<projects, members, invitations, now, tasks, timesheets, approvals,
          login_attempts, sessions, accounts, in_flight, audit_logs, task_history, resp>>

\* in_flight holds the requests that have passed the checks of their handler
\* and have not yet run its write: Django runs each request in its own
\* thread or process, in autocommit mode, with no lock between a handler's
\* reads and its writes.
NoRequests == [adds |-> {}, invites |-> {}]

\* audit_logs and task_history hold the rows the last request has appended to
\* the tables of that name: both tables are only ever appended to and no
\* handler of the model reads them.  A request that appends nothing leaves
\* them empty.
NoAuditRows == audit_logs' = {}
NoHistoryRows == task_history' = {}

(* ----------------------------- audit ------------------------------------*)
\* AuditLog.log: the row it creates
AuditRow(user, action, model_name, object_id, changes) ==
    [user |-> user, action |-> action, model_name |-> model_name,
     object_id |-> object_id, changes |-> changes]

\* str() of a field value
str(v) == <<"str", v>>

\* The marker dictionaries {'action': ...} of the receivers
Marker(what) == [action |-> what]

\* get_model_changes for an instance that has a row: stored is the row
\* objects.get(pk=instance.pk) returns, the result maps every field whose
\* values differ to its old and new value.
get_model_changes(stored, instance) ==
    [f \in {g \in DOMAIN instance : stored[g] # instance[g]} |->
        [old |-> str(stored[f]), new |-> str(instance[f])]]

\* log_model_save (post_save receiver): the rows it appends.  stored is the
\* row of the instance in the table when the receiver runs, that is, after
\* the save; no caller sets _current_user on the instance.
log_model_save(model_name, object_id, stored, instance, created) ==
    LET changes == IF created THEN Marker("created")
                   ELSE get_model_changes(stored, instance)
    IN IF DOMAIN changes # {} /\ changes # Marker("created")
       THEN {AuditRow(None, IF created THEN "CREATE" ELSE "UPDATE",
                      model_name, object_id, changes)}
       ELSE {}

\* log_model_delete (post_delete receiver): the row it appends
log_model_delete(model_name, object_id) ==
    {AuditRow(None, "DELETE", model_name, object_id, Marker("deleted"))}

\* log_user_login / log_user_logout: the row they append
log_user_login(user) ==
    {AuditRow(user, "LOGIN", "User", <<user>>, Marker("logged_in"))}
log_user_logout(user) ==
    {AuditRow(user, "LOGOUT", "User", <<user>>, Marker("logged_out"))}

(* --------------------------- tables -------------------------------------*)
\* projects: id -> [manager, code]; members: rows of project_members;
\* invitations: rows of project_invitations.

\* validate_code / create: str.upper() of a project code <<text, suffix>>.
Upper(c) == <<IF c[1] = "x" THEN "X" ELSE c[1], c[2]>>

CodeInputs == {<<"x", 0>>}

\* A request without a code, or with a blank one.
NoCode == <<"", 0>>

CodeExists(c) == \E p \in DOMAIN projects : projects[p].code = c

\* The while loop of ProjectCreateSerializer.create: base code, then
\* base code followed by counter 1, 2, ... until the code is unused.
RECURSIVE GenCode(_, _)
GenCode(base, counter) ==
    LET code == <<base, counter>> IN
    IF CodeExists(code) THEN GenCode(base, counter + 1) ELSE code

\* The active membership row of (project, user), or None.
ActiveMembership(p, user) ==
    IF \E m \in members : m.project = p /\ m.user = user /\ m.is_active
    THEN (CHOOSE m \in members : m.project = p /\ m.user = user /\ m.is_active).role
    ELSE None

get_user_project_role(user, p) == ActiveMembership(p, user)

MemberRow(p, user) == {m \in members : m.project = p /\ m.user = user}

(* --------------------------- permissions --------------------------------*)
SAFE_METHODS == {"GET", "HEAD", "OPTIONS"}

\* ProjectPermission.has_object_permission
has_object_permission(user, method, action, p) ==
    LET role == ActiveMembership(p, user) IN
    IF RoleOf[user] = "ADMIN" THEN TRUE
    ELSE IF role = None THEN FALSE
    ELSE IF method \in SAFE_METHODS THEN TRUE
    ELSE IF action \in {"update", "partial_update", "destroy"} THEN role = "LEAD"
    ELSE IF action \in {"add_member", "remove_member", "members", "invite_members",
                        "list_invitations", "resend_invitation",
                        "delete_invitation", "update_invitation"}
         THEN role = "LEAD" \/ RoleOf[user] = "ADMIN"
    ELSE FALSE

\* can_user_access_project
can_user_access_project(user, p) ==
    IF RoleOf[user] = "ADMIN" THEN TRUE
    ELSE \E m \in members : m.project = p /\ m.user = user /\ m.is_active

\* can_user_manage_project
can_user_manage_project(user, p) ==
    IF RoleOf[user] = "ADMIN" THEN TRUE
    ELSE ActiveMembership(p, user) = "LEAD"

\* GenericAPIView.get_object as ProjectViewSet uses it: the row is looked up
\* in the unfiltered queryset (only the list action filters), then the
\* object permission is checked.
get_object(user, method, action, p) ==
    IF p \notin DOMAIN projects THEN "not_found"
    ELSE IF ~has_object_permission(user, method, action, p) THEN "forbidden"
    ELSE "ok"

\* ProjectViewSet.get_queryset for the list action, and my_projects:
\* Q(manager=user) | Q(members=user) joins project_members without looking
\* at is_active.
get_queryset(user) ==
    {p \in DOMAIN projects :
        \/ projects[p].manager = user
        \/ \E m \in members : m.project = p /\ m.user = user}

my_projects(user) ==
    {p \in DOMAIN projects :
        \/ projects[p].manager = user
        \/ \E m \in members : m.project = p /\ m.user = user}

Resp(op, user, p, outcome, data) ==
    [op |-> op, user |-> user, project |-> p, outcome |-> outcome, data |-> data]

Remove(f, p) == [q \in DOMAIN f \ {p} |-> f[q]]
Put(f, p, v) == [q \in DOMAIN f \cup {p} |-> IF q = p THEN v ELSE f[q]]

(* --------------------------- project requests ---------------------------*)
UnchangedInv ==
    /\ UNCHANGED <<invitations, now, tasks, timesheets, approvals,
                   login_attempts, sessions, accounts, in_flight>>
    /\ NoHistoryRows

\* The LEAD row ProjectCreateSerializer.create adds for the creator.
CreatorRows_Manager(p, user, manager) ==
    {[project |-> p, user |-> manager, role |-> "LEAD", is_active |-> TRUE]}
CreatorRows(p, user, manager) ==
    {[project |-> p, user |-> user, role |-> "LEAD", is_active |-> TRUE]}

\* ProjectViewSet.create with ProjectCreateSerializer: POST /projects/
CreateProject(user, mgr, codeIn) ==
    /\ \E p \in NewProjectIds : p \notin DOMAIN projects
    /\ Cardinality(members) < MaxMembers
    /\ LET p == CHOOSE q \in NewProjectIds : q \notin DOMAIN projects
           manager == IF mgr = None THEN user ELSE mgr
           code == IF codeIn = NoCode THEN GenCode("N", 0) ELSE Upper(codeIn)
       IN IF codeIn # NoCode /\ CodeExists(Upper(codeIn))
          THEN /\ resp' = Resp("create", user, None, "bad_request", None)
               /\ UNCHANGED <<projects, members>>
               /\ NoAuditRows
          ELSE /\ projects' = Put(projects, p, [manager |-> manager, code |-> code])
               /\ members' = members \cup CreatorRows(p, user, manager)
               /\ audit_logs' =
                    log_model_save("Project", <<p>>, projects'[p], projects'[p], TRUE)
                    \cup UNION {log_model_save("ProjectMember", <<m.project, m.user>>,
                                               m, m, TRUE) :
                                   m \in CreatorRows(p, user, manager)}
               /\ resp' = Resp("create", user, p, "ok", None)
    /\ UnchangedInv

\* ProjectViewSet.update / partial_update with ProjectUpdateSerializer; the
\* request changes the manager (any account, or null).
UpdateProject(user, p, mgr) ==
    /\ LET go == get_object(user, "PUT", "update", p) IN
       IF go # "ok"
       THEN /\ resp' = Resp("update", user, p, go, None)
            /\ UNCHANGED projects
            /\ NoAuditRows
       ELSE /\ projects' = [projects EXCEPT ![p].manager = mgr]
            /\ audit_logs' =
                 log_model_save("Project", <<p>>, projects'[p], projects'[p], FALSE)
            /\ resp' = Resp("update", user, p, "ok", None)
    /\ UNCHANGED members
    /\ UnchangedInv

\* The rows log_model_delete appends when a project is deleted: one for the
\* project and one for every audited row that goes with it.
DestroyProjectAudit(p) ==
    log_model_delete("Project", <<p>>)
    \cup UNION {log_model_delete("ProjectMember", <<m.project, m.user>>) :
                   m \in {x \in members : x.project = p}}
    \cup UNION {log_model_delete("Timesheet", <<t.id>>) :
                   t \in {x \in timesheets : x.project = p}}
    \cup UNION {log_model_delete("TimesheetApproval",
                                 <<x.timesheet, x.approved_by, x.status>>) :
                   x \in {y \in approvals :
                            \E t \in timesheets : t.id = y.timesheet /\ t.project = p}}

\* ProjectViewSet.destroy: refused while the project has tasks; the rows of
\* project_members, project_invitations and timesheets (with their
\* approvals) go with the project (on_delete=CASCADE).
DestroyProject(user, p) ==
    /\ LET go == get_object(user, "DELETE", "destroy", p) IN
       IF go # "ok"
       THEN /\ resp' = Resp("destroy", user, p, go, None)
            /\ UNCHANGED <<projects, members, invitations, timesheets, approvals>>
            /\ NoAuditRows
       ELSE IF \E t \in tasks : t.project = p
       THEN /\ resp' = Resp("destroy", user, p, "bad_request", None)
            /\ UNCHANGED <<projects, members, invitations, timesheets, approvals>>
            /\ NoAuditRows
       ELSE /\ projects' = Remove(projects, p)
            /\ members' = {m \in members : m.project # p}
            /\ invitations' = {i \in invitations : i.project # p}
            /\ timesheets' = {t \in timesheets : t.project # p}
            /\ approvals' = {x \in approvals :
                               \E t \in timesheets : t.id = x.timesheet /\ t.project # p}
            /\ audit_logs' = DestroyProjectAudit(p)
            /\ resp' = Resp("destroy", user, p, "ok", None)
    /\ UNCHANGED <<now, tasks, login_attempts, sessions>>
    /\ UNCHANGED <<accounts, in_flight>>
    /\ NoHistoryRows

\* ProjectViewSet.retrieve: GET /projects/{id}/
RetrieveProject(user, p) ==
    /\ resp' = Resp("retrieve", user, p, get_object(user, "GET", "retrieve", p), None)
    /\ UNCHANGED <<projects, members, login_attempts, sessions>>
    /\ UnchangedInv
    /\ NoAuditRows

\* ProjectViewSet.list: GET /projects/
ListProjects(user) ==
    /\ resp' = Resp("list", user, None, "ok", get_queryset(user))
    /\ UNCHANGED <<projects, members, login_attempts, sessions>>
    /\ UnchangedInv
    /\ NoAuditRows

\* ProjectViewSet.my_projects: GET /projects/my_projects/
MyProjects(user) ==
    /\ resp' = Resp("my_projects", user, None, "ok", my_projects(user))
    /\ UNCHANGED <<projects, members, login_attempts, sessions>>
    /\ UnchangedInv
    /\ NoAuditRows

\* ProjectViewSet.add_member: POST /projects/{id}/add_member/
AddMember(user, p, target, role) ==
    /\ Cardinality(members) < MaxMembers
    /\ LET go == get_object(user, "POST", "add_member", p) IN
       IF go # "ok"
       THEN /\ resp' = Resp("add_member", user, p, go, None)
            /\ UNCHANGED members
       ELSE IF MemberRow(p, target) # {}
       THEN /\ resp' = Resp("add_member", user, p, "bad_request", None)
            /\ UNCHANGED members
       ELSE /\ members' = members \cup
                  {[project |-> p, user |-> target, role |-> role, is_active |-> TRUE]}
            /\ resp' = Resp("add_member", user, p, "ok", None)
    /\ UNCHANGED projects
    /\ UnchangedInv
    /\ NoAuditRows

\* The rows remove_member deletes.
RemovedRows(p, target) == MemberRow(p, target)

\* ProjectViewSet.remove_member: DELETE /projects/{id}/members/{member_id}/
RemoveMember(user, p, target) ==
    /\ LET go == get_object(user, "DELETE", "remove_member", p) IN
       IF go # "ok"
       THEN /\ resp' = Resp("remove_member", user, p, go, None)
            /\ UNCHANGED members
            /\ NoAuditRows
       ELSE IF MemberRow(p, target) = {}
       THEN /\ resp' = Resp("remove_member", user, p, "not_found", None)
            /\ UNCHANGED members
            /\ NoAuditRows
       ELSE /\ members' = members \ RemovedRows(p, target)
            /\ audit_logs' = UNION {log_model_delete("ProjectMember", <<m.project, m.user>>) :
                                      m \in RemovedRows(p, target)}
            /\ resp' = Resp("remove_member", user, p, "ok", None)
    /\ UNCHANGED projects
    /\ UnchangedInv

\* ProjectMemberAdmin (Django admin site): a staff user edits the is_active
\* flag of a project_members row.
AdminSetMemberActive(m, flag) ==
    /\ m \in members
    /\ m.is_active # flag
    /\ members' = (members \ {m}) \cup {[m EXCEPT !.is_active = flag]}
    /\ resp' = Resp("admin_site", "a", m.project, "ok", None)
    /\ UNCHANGED projects
    /\ UnchangedInv
    /\ NoAuditRows

InitEmpty ==
    /\ projects = << >>
    /\ members = {}
    /\ invitations = {}
    /\ now = 0
    /\ tasks = {}
    /\ timesheets = {}
    /\ approvals = {}
    /\ login_attempts = EmptyBag
    /\ sessions = EmptyBag
    /\ accounts = InitAccounts
    /\ in_flight = NoRequests
    /\ audit_logs = {}
    /\ task_history = {}
    /\ resp = Resp("none", None, None, "ok", None)

\* Write requests on projects and their members, from the empty database.
NextProject ==
    \/ \E user \in Users, mgr \in Users \cup {None}, c \in CodeInputs \cup {NoCode} :
          CreateProject(user, mgr, c)
    \/ \E user \in Users, p \in NewProjectIds, mgr \in Users \cup {None} :
          UpdateProject(user, p, mgr)
    \/ \E user \in Users, p \in NewProjectIds : DestroyProject(user, p)
    \/ \E user \in Users, p \in NewProjectIds, t \in Users, r \in MemberRoles :
          AddMember(user, p, t, r)
    \/ \E user \in Users, p \in NewProjectIds, t \in Users : RemoveMember(user, p, t)
    \/ \E m \in members, flag \in BOOLEAN : AdminSetMemberActive(m, flag)

SpecProject == InitEmpty /\ [][NextProject]_vars

\* The same requests without the admin site: the REST API alone.
NextMembers ==
    \/ \E user \in Users, mgr \in Users \cup {None}, c \in CodeInputs \cup {NoCode} :
          CreateProject(user, mgr, c)
    \/ \E user \in Users, p \in NewProjectIds, mgr \in Users \cup {None} :
          UpdateProject(user, p, mgr)
    \/ \E user \in Users, p \in NewProjectIds : DestroyProject(user, p)
    \/ \E user \in Users, p \in NewProjectIds, t \in Users, r \in MemberRoles :
          AddMember(user, p, t, r)
    \/ \E user \in Users, p \in NewProjectIds, t \in Users : RemoveMember(user, p, t)

SpecMembers == InitEmpty /\ [][NextMembers]_vars

(* --------------------------- visibility ---------------------------------*)
\* The write requests together with the read requests on projects.
NextAccess ==
    \/ NextProject
    \/ \E user \in Users, p \in ProjectIds : RetrieveProject(user, p)
    \/ \E user \in Users : ListProjects(user)
    \/ \E user \in Users : MyProjects(user)

SpecAccess == InitEmpty /\ [][NextAccess]_vars

(* --------------------------- invitations --------------------------------*)
\* A row of project_invitations:
\*   [id, project, email, role, status, expires_at, accepted_at].
\* The token is unique per row and is modelled by the id.
\* Tokens a request may carry: those of the rows, and one nobody issued.
NoToken == 0
Tokens == InvIds \cup {NoToken}

FreeIds == {k \in InvIds : ~\E i \in invitations : i.id = k}

\* The n smallest free keys in ascending order.
RECURSIVE TakeIds(_, _)
TakeIds(free, n) ==
    IF n = 0 THEN << >>
    ELSE LET k == CHOOSE x \in free : \A y \in free : x <= y
         IN <<k>> \o TakeIds(free \ {k}, n - 1)

InvById(id) == CHOOSE i \in invitations : i.id = id
HasInv(id) == \E i \in invitations : i.id = id
SetInv(old, new) == (invitations \ {old}) \cup {new}

\* ProjectInvitation.is_expired (models.py)
is_expired_Reversed(i) == now < i.expires_at
is_expired(i) == now > i.expires_at

\* InviteMembersSerializer.validate_emails: drop later duplicates, compared
\* in lower case, keeping the first spelling.
RECURSIVE validate_emails(_, _)
validate_emails(emails, seen) ==
    IF emails = << >> THEN << >>
    ELSE IF Lower(Head(emails)) \in seen
         THEN validate_emails(Tail(emails), seen)
         ELSE <<Head(emails)>> \o
              validate_emails(Tail(emails), seen \cup {Lower(Head(emails))})

Range(seq) == {seq[k] : k \in 1..Len(seq)}

\* user__email__in=emails / email__in=emails under the database collation.
EmailIn_Binary(e, emails) == \E x \in Range(emails) : CiEqBinary(e, x)
EmailIn(e, emails) == \E x \in Range(emails) : CiEq(e, x)

\* InviteMembersSerializer.validate: the first failing check, or "ok".
InviteValidate(p, emails) ==
    IF \E m \in members : m.project = p /\ m.is_active /\ EmailIn(EmailOf[m.user], emails)
    THEN "already_member"
    ELSE IF \E i \in invitations : i.project = p /\ i.status = "PENDING"
                                   /\ EmailIn(i.email, emails)
    THEN "pending_exists"
    ELSE "ok"

NewInvitation(id, p, email, role) ==
    [id |-> id, project |-> p, email |-> email, role |-> role,
     status |-> "PENDING", expires_at |-> now + InvitationDays,
     accepted_at |-> None]

EmailSeqs == UNION {[1..n -> EmailInputs] : n \in 1..MaxBatch}

\* ProjectViewSet.invite_members: POST /projects/{id}/invite-members/
InviteMembers(user, p, emails, role) ==
    /\ LET go == get_object(user, "POST", "invite_members", p)
           unique == validate_emails(emails, {})
           v == InviteValidate(p, unique)
           asked == {Lower(e) : e \in Range(emails)}
       IN IF go # "ok"
          THEN /\ resp' = Resp("invite_members", user, p, go, asked)
               /\ UNCHANGED invitations
          ELSE IF v # "ok"
          THEN /\ resp' = Resp("invite_members", user, p, "bad_request", asked)
               /\ UNCHANGED invitations
          ELSE /\ Len(unique) <= Cardinality(FreeIds)
               /\ LET ids == TakeIds(FreeIds, Len(unique)) IN
                  invitations' = invitations \cup
                     {NewInvitation(ids[k], p, Lower(unique[k]), role) :
                         k \in 1..Len(unique)}
               /\ resp' = Resp("invite_members", user, p, "ok", asked)
    /\ UNCHANGED <<projects, members, now, tasks, timesheets, approvals,
                   login_attempts, sessions>>
    /\ UNCHANGED <<accounts, in_flight>>
    /\ NoAuditRows
    /\ NoHistoryRows

\* AcceptInvitationSerializer.validate_token: the status the row is left
\* with and the verdict.
validate_token(token) ==
    IF ~HasInv(token) THEN [verdict |-> "invalid", status |-> None]
    ELSE LET i == InvById(token) IN
         IF i.status # "PENDING" THEN [verdict |-> "not_pending", status |-> i.status]
         ELSE IF is_expired(i) THEN [verdict |-> "expired", status |-> "EXPIRED"]
         ELSE [verdict |-> "ok", status |-> i.status]

\* User.objects.filter(email=invitation.email).first()
UserByEmail(e) ==
    IF \E x \in Users : CiEq(EmailOf[x], e)
    THEN CHOOSE x \in Users : CiEq(EmailOf[x], e)
    ELSE None

\* ProjectViewSet.accept_invitation: POST /projects/accept-invitation/
\* Outcome "expired" is the 400 of "Invitation has expired."; the other
\* validation errors are "bad_request".
AcceptInvitation(user, token) ==
    /\ LET vt == validate_token(token) IN
       IF vt.verdict \in {"invalid", "not_pending"}
       THEN /\ resp' = Resp("accept_invitation", user, None, "bad_request", token)
            /\ UNCHANGED <<invitations, members>>
       ELSE LET i == InvById(token)
                invited == UserByEmail(i.email)
            IN
            IF vt.verdict = "expired"
            THEN /\ invitations' = SetInv(i, [i EXCEPT !.status = "EXPIRED"])
                 /\ resp' = Resp("accept_invitation", user, None, "expired", token)
                 /\ UNCHANGED members
            ELSE IF invited = None
            THEN /\ resp' = Resp("accept_invitation", user, None, "bad_request", token)
                 /\ UNCHANGED <<invitations, members>>
            ELSE IF ActiveMembership(i.project, invited) # None
            THEN /\ invitations' = SetInv(i, [i EXCEPT !.status = "ACCEPTED"])
                 /\ resp' = Resp("accept_invitation", user, None, "ok", token)
                 /\ UNCHANGED members
            ELSE IF MemberRow(i.project, invited) # {}
            THEN \* unique_together (project, user): IntegrityError
                 /\ resp' = Resp("accept_invitation", user, None, "error", token)
                 /\ UNCHANGED <<invitations, members>>
            ELSE /\ Cardinality(members) < MaxMembers
                 /\ members' = members \cup
                       {[project |-> i.project, user |-> invited,
                         role |-> i.role, is_active |-> TRUE]}
                 /\ invitations' = SetInv(i, [i EXCEPT !.status = "ACCEPTED",
                                                       !.accepted_at = now])
                 /\ resp' = Resp("accept_invitation", user, None, "ok", token)
    /\ UNCHANGED <<projects, now, tasks, timesheets, approvals,
                   login_attempts, sessions>>
    /\ UNCHANGED <<accounts, in_flight>>
    /\ NoAuditRows
    /\ NoHistoryRows

\* ProjectViewSet.reject_invitation: POST /projects/reject-invitation/
RejectInvitation(user, token) ==
    /\ LET vt == validate_token(token) IN
       IF vt.verdict \in {"invalid", "not_pending"}
       THEN /\ resp' = Resp("reject_invitation", user, None, "bad_request", token)
            /\ UNCHANGED invitations
       ELSE LET i == InvById(token) IN
            IF vt.verdict = "expired"
            THEN /\ invitations' = SetInv(i, [i EXCEPT !.status = "EXPIRED"])
                 /\ resp' = Resp("reject_invitation", user, None, "expired", token)
            ELSE /\ invitations' = SetInv(i, [i EXCEPT !.status = "REJECTED"])
                 /\ resp' = Resp("reject_invitation", user, None, "ok", token)
    /\ UNCHANGED <<projects, members, now, tasks, timesheets, approvals,
                   login_attempts, sessions>>
    /\ UNCHANGED <<accounts, in_flight>>
    /\ NoAuditRows
    /\ NoHistoryRows

\* resend_invitation without the status='PENDING' filter of its lookup
ResendInvitation_AnyStatus(user, p, id) ==
    /\ LET go == get_object(user, "POST", "resend_invitation", p) IN
       IF go # "ok"
       THEN /\ resp' = Resp("resend_invitation", user, p, go, id)
            /\ UNCHANGED invitations
       ELSE IF ~\E i \in invitations : i.id = id /\ i.project = p
       THEN /\ resp' = Resp("resend_invitation", user, p, "not_found", id)
            /\ UNCHANGED invitations
       ELSE LET i == InvById(id) IN
            /\ invitations' =
                 IF is_expired(i)
                 THEN SetInv(i, [i EXCEPT !.expires_at = now + InvitationDays])
                 ELSE invitations
            /\ resp' = Resp("resend_invitation", user, p, "ok", id)
    /\ UNCHANGED <<projects, members, now, tasks, timesheets, approvals,
                   login_attempts, sessions>>
    /\ UNCHANGED <<accounts, in_flight>>
    /\ NoAuditRows
    /\ NoHistoryRows

\* ProjectViewSet.resend_invitation:
\* POST /projects/{id}/invitations/{invitation_id}/resend/
ResendInvitation(user, p, id) ==
    /\ LET go == get_object(user, "POST", "resend_invitation", p) IN
       IF go # "ok"
       THEN /\ resp' = Resp("resend_invitation", user, p, go, id)
            /\ UNCHANGED invitations
       ELSE IF ~\E i \in invitations : i.id = id /\ i.project = p /\ i.status = "PENDING"
       THEN /\ resp' = Resp("resend_invitation", user, p, "not_found", id)
            /\ UNCHANGED invitations
       ELSE LET i == InvById(id) IN
            /\ invitations' =
                 IF is_expired(i)
                 THEN SetInv(i, [i EXCEPT !.expires_at = now + InvitationDays])
                 ELSE invitations
            /\ resp' = Resp("resend_invitation", user, p, "ok", id)
    /\ UNCHANGED <<projects, members, now, tasks, timesheets, approvals,
                   login_attempts, sessions>>
    /\ UNCHANGED <<accounts, in_flight>>
    /\ NoAuditRows
    /\ NoHistoryRows

\* ProjectViewSet.delete_invitation:
\* DELETE /projects/{id}/invitations/{invitation_id}/
DeleteInvitation(user, p, id) ==
    /\ LET go == get_object(user, "DELETE", "delete_invitation", p) IN
       IF go # "ok"
       THEN /\ resp' = Resp("delete_invitation", user, p, go, None)
            /\ UNCHANGED invitations
       ELSE IF ~\E i \in invitations : i.id = id /\ i.project = p
       THEN /\ resp' = Resp("delete_invitation", user, p, "not_found", id)
            /\ UNCHANGED invitations
       ELSE /\ invitations' = invitations \ {InvById(id)}
            /\ resp' = Resp("delete_invitation", user, p, "ok", id)
    /\ UNCHANGED <<projects, members, now, tasks, timesheets, approvals,
                   login_attempts, sessions>>
    /\ UNCHANGED <<accounts, in_flight>>
    /\ NoAuditRows
    /\ NoHistoryRows

\* ProjectViewSet.update_invitation:
\* PATCH /projects/{id}/invitations/{invitation_id}/ with a role.
UpdateInvitation(user, p, id, role) ==
    /\ LET go == get_object(user, "PATCH", "update_invitation", p) IN
       IF go # "ok"
       THEN /\ resp' = Resp("update_invitation", user, p, go, None)
            /\ UNCHANGED invitations
       ELSE IF ~\E i \in invitations : i.id = id /\ i.project = p /\ i.status = "PENDING"
       THEN /\ resp' = Resp("update_invitation", user, p, "not_found", id)
            /\ UNCHANGED invitations
       ELSE LET i == InvById(id) IN
            /\ invitations' = SetInv(i, [i EXCEPT !.role = role])
            /\ resp' = Resp("update_invitation", user, p, "ok", id)
    /\ UNCHANGED <<projects, members, now, tasks, timesheets, approvals,
                   login_attempts, sessions>>
    /\ UNCHANGED <<accounts, in_flight>>
    /\ NoAuditRows
    /\ NoHistoryRows

\* timezone.now() moves on.
\* The clock is observed once per expiry period, a day after the expiry.
TickDays == InvitationDays + 1
Tick ==
    /\ now + TickDays <= MaxTime
    /\ now' = now + TickDays
    /\ UNCHANGED <<projects, members, invitations, tasks, timesheets, approvals, resp,
                   login_attempts, sessions>>
    /\ UNCHANGED <<accounts, in_flight, audit_logs, task_history>>

\* The database after user u has created project p1.
InitInvite ==
    /\ projects = [p \in {"p1"} |-> [manager |-> "u", code |-> <<"N", 0>>]]
    /\ members = CreatorRows("p1", "u", "u")
    /\ invitations = {}
    /\ now = 0
    /\ tasks = {}
    /\ timesheets = {}
    /\ approvals = {}
    /\ login_attempts = EmptyBag
    /\ sessions = EmptyBag
    /\ accounts = InitAccounts
    /\ in_flight = NoRequests
    /\ audit_logs = {}
    /\ task_history = {}
    /\ resp = Resp("create", "u", "p1", "ok", None)

\* The requests of the invitation workflow are sent by the project's LEAD
\* u and by v, who is no member until an invitation is accepted.
Actors == {"u", "v"}
InviteRoles == {"DEVELOPER"}
UpdateRoles == {"LEAD"}

NextInvite ==
    \/ \E user \in Actors, p \in NewProjectIds, es \in EmailSeqs, r \in InviteRoles :
          InviteMembers(user, p, es, r)
    \/ \E user \in Actors, t \in Tokens : AcceptInvitation(user, t)
    \/ \E user \in Actors, t \in Tokens : RejectInvitation(user, t)
    \/ \E user \in Actors, p \in NewProjectIds, t \in Tokens : ResendInvitation(user, p, t)
    \/ \E user \in Actors, p \in NewProjectIds, t \in Tokens : DeleteInvitation(user, p, t)
    \/ \E user \in Actors, p \in NewProjectIds, t \in Tokens, r \in UpdateRoles :
          UpdateInvitation(user, p, t, r)
    \/ Tick

SpecInvite == InitInvite /\ [][NextInvite]_vars

(* --------------- invitation_views.py / invitation_models.py --------------*)
\* The second implementation of invitations kept in the repository:
\* ProjectInvitationViewSet over the ProjectInvitation of
\* invitation_models.py. It uses the same table; its rows carry invited_by.

\* The primary key default uuid.uuid4().hex is evaluated once, when the class
\* is defined: every row a server process creates gets this one key.
LegacyId == 1

LegacyRoles == {"MEMBER"}

\* invitation_models.ProjectInvitation.is_expired
legacy_is_expired(i) == now > i.expires_at /\ i.status = "PENDING"

\* invitation_models.ProjectInvitation.accept: the row it saves
legacy_accept(i) ==
    IF legacy_is_expired(i)
    THEN [i EXCEPT !.status = "EXPIRED"]
    ELSE [i EXCEPT !.status = "ACCEPTED", !.accepted_at = now]

\* ProjectInvitationViewSet.get_queryset
legacy_get_queryset(user) ==
    IF RoleOf[user] \in {"ADMIN", "MANAGER"}
    THEN {i \in invitations : i.invited_by = user}
    ELSE {i \in invitations : CiEq(i.email, EmailOf[user])}

\* ProjectInvitationViewSet.send_invitation with InvitationCreateSerializer
LegacySendInvitation(user, p, email, role) ==
    /\ IF p \notin DOMAIN projects
       THEN /\ resp' = Resp("legacy_send", user, p, "not_found", None)
            /\ UNCHANGED invitations
       ELSE IF RoleOf[user] \notin {"ADMIN", "MANAGER"}
       THEN /\ resp' = Resp("legacy_send", user, p, "forbidden", None)
            /\ UNCHANGED invitations
       ELSE IF \E i \in invitations :
                  i.project = p /\ CiEq(i.email, Lower(email)) /\ i.status = "PENDING"
       THEN /\ resp' = Resp("legacy_send", user, p, "bad_request", None)
            /\ UNCHANGED invitations
       ELSE IF HasInv(LegacyId)
       THEN /\ resp' = Resp("legacy_send", user, p, "server_error", None)
            /\ UNCHANGED invitations
       ELSE /\ invitations' = invitations \cup
                  {[id |-> LegacyId, project |-> p, email |-> Lower(email),
                    invited_by |-> user, role |-> role, status |-> "PENDING",
                    expires_at |-> now + InvitationDays, accepted_at |-> None]}
            /\ resp' = Resp("legacy_send", user, p, "ok", LegacyId)
    /\ UNCHANGED <<projects, members, now, tasks, timesheets, approvals,
                   login_attempts, sessions>>
    /\ UNCHANGED <<accounts, in_flight>>
    /\ NoAuditRows
    /\ NoHistoryRows

\* ProjectInvitationViewSet.accept_invitation
LegacyAcceptInvitation(user, token) ==
    /\ IF ~HasInv(token)
       THEN /\ resp' = Resp("legacy_accept", user, None, "not_found", token)
            /\ UNCHANGED invitations
       ELSE LET i == InvById(token) IN
            IF Lower(i.email) # Lower(EmailOf[user])
            THEN /\ resp' = Resp("legacy_accept", user, None, "forbidden", token)
                 /\ UNCHANGED invitations
            ELSE /\ invitations' = SetInv(i, legacy_accept(i))
                 /\ resp' = Resp("legacy_accept", user, None,
                                 IF legacy_is_expired(i) THEN "bad_request" ELSE "ok",
                                 token)
    /\ UNCHANGED <<projects, members, now, tasks, timesheets, approvals,
                   login_attempts, sessions>>
    /\ UNCHANGED <<accounts, in_flight>>
    /\ NoAuditRows
    /\ NoHistoryRows

\* ProjectInvitationViewSet.resend
LegacyResend(user, id) ==
    /\ IF ~\E i \in legacy_get_queryset(user) : i.id = id
       THEN /\ resp' = Resp("legacy_resend", user, None, "not_found", id)
            /\ UNCHANGED invitations
       ELSE LET i == InvById(id) IN
            IF i.status # "PENDING"
            THEN /\ resp' = Resp("legacy_resend", user, None, "bad_request", id)
                 /\ UNCHANGED invitations
            ELSE /\ invitations' =
                       IF legacy_is_expired(i)
                       THEN SetInv(i, [i EXCEPT !.expires_at = now + InvitationDays])
                       ELSE invitations
                 /\ resp' = Resp("legacy_resend", user, None, "ok", id)
    /\ UNCHANGED <<projects, members, now, tasks, timesheets, approvals,
                   login_attempts, sessions>>
    /\ UNCHANGED <<accounts, in_flight>>
    /\ NoAuditRows
    /\ NoHistoryRows

NextLegacyInvite ==
    \/ \E user \in Users, p \in ProjectIds, e \in EmailInputs, r \in LegacyRoles :
          LegacySendInvitation(user, p, e, r)
    \/ \E user \in Users, t \in Tokens : LegacyAcceptInvitation(user, t)
    \/ \E user \in Users, t \in Tokens : LegacyResend(user, t)
    \/ Tick

SpecLegacyInvite == InitInvite /\ [][NextLegacyInvite]_vars

(* --------------------------- timesheets ---------------------------------*)
\* A row of timesheets: [id, employee, project, date, hours, status,
\* submitted_at]; every request of the model sends task = null, so every row
\* has no task.  hours is a Decimal with two places, kept in hundredths.
\* A row of timesheet_approvals: [timesheet, approved_by, status].
TsIds == {1, 2}

\* Dates a request may carry: today (0) and tomorrow (1).
Dates == {0, 1}

TsById(id) == CHOOSE t \in timesheets : t.id = id
SetTs(old, new) == (timesheets \ {old}) \cup {new}

\* Timesheet.hours: MinValueValidator(0.5) and MaxValueValidator(24), which
\* the ModelSerializers take over as the bounds of their hours field.
MinHours == 50
MaxHours == 2400
HoursInputs == {MinHours - 1, MinHours, MaxHours, MaxHours + 1}
hours_valid(h) == MinHours <= h /\ h <= MaxHours

\* User.is_project_manager
is_project_manager(user, p) == projects[p].manager = user

\* is_editable that only closes the approved rows
is_editable_NotApproved(t) == t.status # "APPROVED"

\* Timesheet.is_editable
is_editable(t) == t.status \in {"DRAFT", "REJECTED"}

\* TimesheetViewSet.get_queryset: the rows the view works on.
ts_get_queryset(user, action) ==
    IF action = "approve"
    THEN IF is_admin(user) THEN timesheets
         ELSE {t \in timesheets : projects[t.project].manager = user}
    ELSE IF is_admin(user) THEN timesheets
    ELSE {t \in timesheets : t.employee = user}

\* The permission test inside TimesheetViewSet.approve.
approve_allowed(user, t) ==
    is_admin(user) \/ is_project_manager(user, t.project)

\* TimesheetViewSet.create with TimesheetCreateSerializer and
\* perform_create: POST /timesheets/
CreateTimesheet(user, employee, p, date, hours) ==
    /\ \E k \in TsIds : ~\E t \in timesheets : t.id = k
    /\ LET id == CHOOSE k \in TsIds : ~\E t \in timesheets : t.id = k
           owner == IF is_admin(user) THEN employee ELSE user
       IN IF \/ p \notin DOMAIN projects
             \/ ~hours_valid(hours)
             \/ \E t \in timesheets :
                   t.employee = employee /\ t.project = p /\ t.date = date
             \/ date > now
          THEN /\ resp' = Resp("ts_create", user, p, "bad_request", None)
               /\ UNCHANGED timesheets
          ELSE /\ timesheets' = timesheets \cup
                     {[id |-> id, employee |-> owner, project |-> p, date |-> date,
                       hours |-> hours, status |-> "DRAFT", submitted_at |-> None]}
               /\ resp' = Resp("ts_create", user, p, "ok", id)
    /\ UNCHANGED <<projects, members, invitations, now, tasks, approvals,
                   login_attempts, sessions>>
    /\ UNCHANGED <<accounts, in_flight>>
    /\ NoAuditRows
    /\ NoHistoryRows

\* TimesheetViewSet.submit with Timesheet.submit: POST /timesheets/{id}/submit/
SubmitTimesheet(user, id) ==
    /\ IF ~\E t \in ts_get_queryset(user, "submit") : t.id = id
       THEN /\ resp' = Resp("ts_submit", user, None, "not_found", id)
            /\ UNCHANGED timesheets
       ELSE LET t == TsById(id) IN
            IF ~is_admin(user) /\ t.employee # user
            THEN /\ resp' = Resp("ts_submit", user, None, "forbidden", id)
                 /\ UNCHANGED timesheets
            ELSE IF t.status # "DRAFT" /\ t.status # "REJECTED"
            THEN /\ resp' = Resp("ts_submit", user, None, "bad_request", id)
                 /\ UNCHANGED timesheets
            ELSE /\ timesheets' = SetTs(t, [t EXCEPT !.status = "SUBMITTED",
                                                     !.submitted_at = now])
                 /\ resp' = Resp("ts_submit", user, None, "ok", id)
    /\ UNCHANGED <<projects, members, invitations, now, tasks, approvals,
                   login_attempts, sessions>>
    /\ UNCHANGED <<accounts, in_flight>>
    /\ NoAuditRows
    /\ NoHistoryRows

\* approve without its check of the status
ApproveTimesheet_AnyStatus(user, id, decision) ==
    /\ IF ~\E t \in ts_get_queryset(user, "approve") : t.id = id
       THEN /\ resp' = Resp("ts_approve", user, None, "not_found", id)
            /\ UNCHANGED <<timesheets, approvals>>
       ELSE LET t == TsById(id) IN
            IF ~approve_allowed(user, t)
            THEN /\ resp' = Resp("ts_approve", user, None, "forbidden", id)
                 /\ UNCHANGED <<timesheets, approvals>>
            ELSE /\ timesheets' = SetTs(t, [t EXCEPT !.status = decision])
                 /\ approvals' = approvals \cup
                       {[timesheet |-> id, approved_by |-> user, status |-> decision]}
                 /\ resp' = Resp("ts_approve", user, None, "ok", id)
    /\ UNCHANGED <<projects, members, invitations, now, tasks,
                   login_attempts, sessions>>
    /\ UNCHANGED <<accounts, in_flight>>
    /\ NoAuditRows
    /\ NoHistoryRows

\* TimesheetViewSet.approve with Timesheet.approve / Timesheet.reject:
\* POST /timesheets/{id}/approve/ with status APPROVED or REJECTED (and the
\* comments a rejection needs).
ApproveTimesheet(user, id, decision) ==
    /\ IF ~\E t \in ts_get_queryset(user, "approve") : t.id = id
       THEN /\ resp' = Resp("ts_approve", user, None, "not_found", id)
            /\ UNCHANGED <<timesheets, approvals>>
       ELSE LET t == TsById(id) IN
            IF ~approve_allowed(user, t)
            THEN /\ resp' = Resp("ts_approve", user, None, "forbidden", id)
                 /\ UNCHANGED <<timesheets, approvals>>
            ELSE IF t.status # "SUBMITTED"
            THEN /\ resp' = Resp("ts_approve", user, None, "bad_request", id)
                 /\ UNCHANGED <<timesheets, approvals>>
            ELSE /\ timesheets' = SetTs(t, [t EXCEPT !.status = decision])
                 /\ approvals' = approvals \cup
                       {[timesheet |-> id, approved_by |-> user, status |-> decision]}
                 /\ resp' = Resp("ts_approve", user, None, "ok", id)
    /\ UNCHANGED <<projects, members, invitations, now, tasks,
                   login_attempts, sessions>>
    /\ UNCHANGED <<accounts, in_flight>>
    /\ NoAuditRows
    /\ NoHistoryRows

\* TimesheetViewSet.update with TimesheetUpdateSerializer:
\* PUT /timesheets/{id}/ with project, date and hours (task = null).
UpdateTimesheet(user, id, p, date, hours) ==
    /\ IF ~\E t \in ts_get_queryset(user, "update") : t.id = id
       THEN /\ resp' = Resp("ts_update", user, None, "not_found", id)
            /\ UNCHANGED timesheets
       ELSE LET t == TsById(id) IN
            IF ~is_admin(user) /\ t.employee # user
            THEN /\ resp' = Resp("ts_update", user, None, "forbidden", id)
                 /\ UNCHANGED timesheets
            ELSE IF ~is_editable(t) \/ p \notin DOMAIN projects \/ ~hours_valid(hours)
            THEN /\ resp' = Resp("ts_update", user, None, "bad_request", id)
                 /\ UNCHANGED timesheets
            ELSE /\ timesheets' = SetTs(t, [t EXCEPT !.project = p, !.date = date,
                                                     !.hours = hours])
                 /\ resp' = Resp("ts_update", user, None, "ok", id)
    /\ UNCHANGED <<projects, members, invitations, now, tasks, approvals,
                   login_attempts, sessions>>
    /\ UNCHANGED <<accounts, in_flight>>
    /\ NoAuditRows
    /\ NoHistoryRows

\* The rows log_model_delete appends when a timesheet is deleted
DestroyTimesheetAudit(id) ==
    log_model_delete("Timesheet", <<id>>)
    \cup UNION {log_model_delete("TimesheetApproval",
                                 <<x.timesheet, x.approved_by, x.status>>) :
                   x \in {y \in approvals : y.timesheet = id}}

\* TimesheetViewSet.destroy: DELETE /timesheets/{id}/ ; the approvals of the
\* row go with it (on_delete=CASCADE).
DestroyTimesheet(user, id) ==
    /\ IF ~\E t \in ts_get_queryset(user, "destroy") : t.id = id
       THEN /\ resp' = Resp("ts_destroy", user, None, "not_found", id)
            /\ UNCHANGED <<timesheets, approvals>>
            /\ NoAuditRows
       ELSE LET t == TsById(id) IN
            IF ~is_admin(user) /\ t.employee # user
            THEN /\ resp' = Resp("ts_destroy", user, None, "forbidden", id)
                 /\ UNCHANGED <<timesheets, approvals>>
                 /\ NoAuditRows
            ELSE IF ~is_editable(t)
            THEN /\ resp' = Resp("ts_destroy", user, None, "bad_request", id)
                 /\ UNCHANGED <<timesheets, approvals>>
                 /\ NoAuditRows
            ELSE /\ timesheets' = timesheets \ {t}
                 /\ approvals' = {x \in approvals : x.timesheet # id}
                 /\ audit_logs' = DestroyTimesheetAudit(id)
                 /\ resp' = Resp("ts_destroy", user, None, "ok", id)
    /\ UNCHANGED <<projects, members, invitations, now, tasks,
                   login_attempts, sessions>>
    /\ UNCHANGED <<accounts, in_flight>>
    /\ NoHistoryRows

\* The database after u has created p1 and added v as DEVELOPER, and v has
\* created p2.
InitTimesheet ==
    /\ projects = [p \in ProjectIds |->
          [manager |-> IF p = "p1" THEN "u" ELSE "v",
           code |-> <<"N", IF p = "p1" THEN 0 ELSE 1>>]]
    /\ members = CreatorRows("p1", "u", "u") \cup CreatorRows("p2", "v", "v") \cup
                 {[project |-> "p1", user |-> "v", role |-> "DEVELOPER", is_active |-> TRUE]}
    /\ invitations = {}
    /\ now = 0
    /\ tasks = {}
    /\ timesheets = {}
    /\ approvals = {}
    /\ login_attempts = EmptyBag
    /\ sessions = EmptyBag
    /\ accounts = InitAccounts
    /\ in_flight = NoRequests
    /\ audit_logs = {}
    /\ task_history = {}
    /\ resp = Resp("none", None, None, "ok", None)

NextTimesheet ==
    \/ \E user \in Users, e \in Users, p \in ProjectIds, d \in Dates :
          CreateTimesheet(user, e, p, d, MinHours)
    \/ \E user \in Users, id \in TsIds : SubmitTimesheet(user, id)
    \/ \E user \in Users, id \in TsIds, d \in {"APPROVED", "REJECTED"} :
          ApproveTimesheet(user, id, d)

SpecTimesheet == InitTimesheet /\ [][NextTimesheet]_vars

\* The timesheet requests of one employee (v) and the administrator on one
\* project, with the edits.
EditUsers == {"a", "v"}

NextTimesheetEdit ==
    \/ \E user \in EditUsers, e \in EditUsers, p \in NewProjectIds, d \in Dates,
          h \in HoursInputs : CreateTimesheet(user, e, p, d, h)
    \/ \E user \in EditUsers, id \in TsIds, p \in NewProjectIds, d \in Dates,
          h \in HoursInputs : UpdateTimesheet(user, id, p, d, h)
    \/ \E user \in EditUsers, id \in TsIds : DestroyTimesheet(user, id)
    \/ \E user \in EditUsers, id \in TsIds : SubmitTimesheet(user, id)
    \/ \E user \in EditUsers, id \in TsIds, d \in {"APPROVED", "REJECTED"} :
          ApproveTimesheet(user, id, d)

SpecTimesheetEdit == InitTimesheet /\ [][NextTimesheetEdit]_vars

(* ------------------------------ tasks ------------------------------------*)
\* A row of tasks: [id, project, assigned_to, created_by, status,
\* completed_date], completed_date being << >> (null) or <<timestamp>>.
\* The notifications of tasks/signals.py change no table.
TaskIds == {1}

\* Values of the status field that requests carry: three of Task.STATUS_CHOICES
\* for the validated endpoints, and the unvalidated strings of reorder.
TaskStatuses == {"TODO", "IN_PROGRESS", "COMPLETED"}
NoStatus == "absent"
ReorderStatuses == {NoStatus, "COMPLETED", "DONE"}

TaskById(id) == CHOOSE t \in tasks : t.id = id
HasTask(id) == \E t \in tasks : t.id = id
SetTask(old, new) == (tasks \ {old}) \cup {new}

\* User.has_permission: the permission_map of the two system roles.
has_permission(user, permission) ==
    IF RoleOf[user] = "ADMIN"
    THEN permission \in {"manage_users", "manage_departments", "manage_projects",
                         "manage_tasks", "view_all_timesheets", "approve_all_timesheets",
                         "generate_all_reports", "view_audit_logs", "system_config",
                         "view_own_data", "submit_timesheets", "view_assigned_projects"}
    ELSE permission \in {"view_own_data", "submit_timesheets", "view_assigned_projects",
                         "manage_projects", "manage_tasks"}

\* users.permissions.CanManageProjects, the permission of TaskViewSet.create
CanManageProjects(user) == has_permission(user, "manage_projects")

\* projects.permissions.can_user_create_task
can_user_create_task(user, p) ==
    \/ RoleOf[user] = "ADMIN"
    \/ get_user_project_role(user, p) \in {"LEAD", "DEVELOPER"}

\* projects.permissions.can_user_edit_task
can_user_edit_task(user, t) ==
    \/ RoleOf[user] = "ADMIN"
    \/ t.assigned_to = user
    \/ get_user_project_role(user, t.project) \in {"LEAD", "DEVELOPER"}

\* The test at the head of TaskViewSet.update. User has no attribute
\* is_manager, so when the first three operands are all false the fourth
\* raises AttributeError and the request ends as a server error.
update_check(user, t) ==
    IF is_admin(user) \/ user = t.assigned_to \/ user = projects[t.project].manager
    THEN "ok" ELSE "server_error"

\* The completed_date that update_status and reorder leave behind, done being
\* the status value the endpoint compares with.
CompletedDate(t, new_status, done) ==
    IF new_status = done /\ t.completed_date = << >> THEN <<now>>
    ELSE IF new_status # done THEN << >>
    ELSE t.completed_date

UnchangedByTask ==
    /\ UNCHANGED <<projects, members, invitations, now, timesheets, approvals,
                   login_attempts, sessions, accounts, in_flight>>
    /\ NoAuditRows

\* TaskViewSet.create with TaskCreateSerializer: POST /tasks/
\* A row of task_history: [user, action, field_name, old_value, new_value].
\* Of the fields the receivers compare, the requests of the model change
\* status and assigned_to.
HistoryRow(user, action, field_name, old_value, new_value) ==
    [user |-> user, action |-> action, field_name |-> field_name,
     old_value |-> old_value, new_value |-> new_value]

\* track_task_changes (pre_save receiver): the values it remembers from the
\* stored rows with the key of the instance (none or one), None when there
\* is none.
track_task_changes(rows) ==
    IF rows = {}
    THEN [_old_status |-> None, _old_assigned_to |-> None]
    ELSE LET stored == CHOOSE x \in rows : TRUE
         IN [_old_status |-> stored.status, _old_assigned_to |-> stored.assigned_to]

\* get_full_name() of a user, 'Unassigned' for no user; the accounts of the
\* model have their identifier as their name.
full_name(user) == IF user = None THEN "Unassigned" ELSE user

\* create_task_history that records the status on every save of a stored task
create_task_history_EverySave(old, instance, created) ==
    IF created
    THEN {HistoryRow(instance.created_by, "CREATED", "", "", "")}
    ELSE (IF old._old_status # None
          THEN {HistoryRow(instance.created_by, "STATUS_CHANGED", "status",
                           old._old_status, instance.status)}
          ELSE {})
         \cup
         (IF old._old_assigned_to # instance.assigned_to
          THEN {HistoryRow(instance.created_by, "ASSIGNED", "assigned_to",
                           full_name(old._old_assigned_to),
                           full_name(instance.assigned_to))}
          ELSE {})

\* create_task_history (post_save receiver, connected when the tasks app is
\* loaded): the rows it appends
create_task_history(old, instance, created) ==
    IF created
    THEN {HistoryRow(instance.created_by, "CREATED", "", "", "")}
    ELSE (IF old._old_status # None /\ old._old_status # instance.status
          THEN {HistoryRow(instance.created_by, "STATUS_CHANGED", "status",
                           old._old_status, instance.status)}
          ELSE {})
         \cup
         (IF old._old_assigned_to # instance.assigned_to
          THEN {HistoryRow(instance.created_by, "ASSIGNED", "assigned_to",
                           full_name(old._old_assigned_to),
                           full_name(instance.assigned_to))}
          ELSE {})

CreateTask(user, p, assignee, status) ==
    /\ \E k \in TaskIds : ~HasTask(k)
    /\ LET id == CHOOSE k \in TaskIds : ~HasTask(k) IN
       IF ~CanManageProjects(user)
       THEN /\ resp' = Resp("task_create", user, p, "forbidden", None)
            /\ UNCHANGED tasks
            /\ NoHistoryRows
       ELSE IF p \notin DOMAIN projects
       THEN /\ resp' = Resp("task_create", user, p, "bad_request", None)
            /\ UNCHANGED tasks
            /\ NoHistoryRows
       ELSE LET t == [id |-> id, project |-> p, assigned_to |-> assignee,
                      created_by |-> user, status |-> status,
                      completed_date |-> << >>]
            IN
            /\ tasks' = tasks \cup {t}
            /\ task_history' = create_task_history(track_task_changes({}), t, TRUE)
            /\ resp' = Resp("task_create", user, p, "ok", id)
    /\ UnchangedByTask

\* TaskViewSet.update / partial_update with TaskUpdateSerializer:
\* PUT or PATCH /tasks/{id}/ carrying assigned_to and status.
UpdateTask(user, id, assignee, status) ==
    /\ IF ~HasTask(id)
       THEN /\ resp' = Resp("task_update", user, None, "not_found", id)
            /\ UNCHANGED tasks
            /\ NoHistoryRows
       ELSE LET t == TaskById(id) IN
            IF update_check(user, t) # "ok"
            THEN /\ resp' = Resp("task_update", user, t.project, update_check(user, t), id)
                 /\ UNCHANGED tasks
                 /\ NoHistoryRows
            ELSE LET new == [t EXCEPT !.assigned_to = assignee, !.status = status] IN
                 /\ tasks' = SetTask(t, new)
                 /\ task_history' = create_task_history(track_task_changes({t}), new, FALSE)
                 /\ resp' = Resp("task_update", user, t.project, "ok", id)
    /\ UnchangedByTask

\* TaskViewSet.update_status: POST /tasks/{id}/update_status/
UpdateTaskStatus(user, id, status) ==
    /\ IF ~HasTask(id)
       THEN /\ resp' = Resp("task_update_status", user, None, "not_found", id)
            /\ UNCHANGED tasks
            /\ NoHistoryRows
       ELSE LET t == TaskById(id)
                new == [t EXCEPT !.status = status,
                                 !.completed_date = CompletedDate(t, status, "COMPLETED")]
            IN
            /\ tasks' = SetTask(t, new)
            /\ task_history' = create_task_history(track_task_changes({t}), new, FALSE)
            /\ resp' = Resp("task_update_status", user, t.project, "ok", id)
    /\ UnchangedByTask

\* TaskViewSet.reorder: POST /tasks/{id}/reorder/ (kanban_order is not a
\* field of the model's rows)
ReorderTask(user, id, new_status) ==
    /\ IF ~HasTask(id)
       THEN /\ resp' = Resp("task_reorder", user, None, "not_found", id)
            /\ UNCHANGED tasks
            /\ NoHistoryRows
       ELSE LET t == TaskById(id)
                new == IF new_status = NoStatus THEN t
                       ELSE [t EXCEPT !.status = new_status,
                                      !.completed_date = CompletedDate(t, new_status, "DONE")]
            IN
            /\ tasks' = SetTask(t, new)
            /\ task_history' = create_task_history(track_task_changes({t}), new, FALSE)
            /\ resp' = Resp("task_reorder", user, t.project, "ok", id)
    /\ UnchangedByTask

\* TaskViewSet.assign: POST /tasks/{id}/assign/ with the user_id of target
AssignTask(user, id, target) ==
    /\ IF ~HasTask(id)
       THEN /\ resp' = Resp("task_assign", user, None, "not_found", id)
            /\ UNCHANGED tasks
            /\ NoHistoryRows
       ELSE LET t == TaskById(id) IN
            IF ActiveMembership(t.project, target) = None
            THEN /\ resp' = Resp("task_assign", user, t.project, "bad_request", id)
                 /\ UNCHANGED tasks
                 /\ NoHistoryRows
            ELSE LET new == [t EXCEPT !.assigned_to = target] IN
                 /\ tasks' = SetTask(t, new)
                 /\ task_history' = create_task_history(track_task_changes({t}), new, FALSE)
                 /\ resp' = Resp("task_assign", user, t.project, "ok", id)
    /\ UnchangedByTask

\* The rows v can have in project_members of p1: none, an active DEVELOPER
\* or TESTER row from add_member, or a DEVELOPER row the admin site has
\* made inactive.
VRows ==
    {{}} \cup
    {{[project |-> "p1", user |-> "v", role |-> r, is_active |-> f]} :
        r \in {"DEVELOPER", "TESTER"}, f \in BOOLEAN}

\* The database after u has created p1.
InitTask ==
    /\ projects = [p \in {"p1"} |-> [manager |-> "u", code |-> <<"N", 0>>]]
    /\ \E rows \in VRows : members = CreatorRows("p1", "u", "u") \cup rows
    /\ invitations = {}
    /\ now = 0
    /\ tasks = {}
    /\ timesheets = {}
    /\ approvals = {}
    /\ login_attempts = EmptyBag
    /\ sessions = EmptyBag
    /\ accounts = InitAccounts
    /\ in_flight = NoRequests
    /\ audit_logs = {}
    /\ task_history = {}
    /\ resp = Resp("none", None, None, "ok", None)

\* The requests come from the two EMPLOYEE accounts; the assignee of a
\* request can be any account.
TaskUsers == {"u", "v"}

NextTask ==
    \/ \E user \in TaskUsers, p \in ProjectIds, x \in Users \cup {None}, st \in TaskStatuses :
          CreateTask(user, p, x, st)
    \/ \E user \in TaskUsers, id \in TaskIds, x \in Users \cup {None}, st \in TaskStatuses :
          UpdateTask(user, id, x, st)
    \/ \E user \in TaskUsers, id \in TaskIds, st \in TaskStatuses :
          UpdateTaskStatus(user, id, st)
    \/ \E user \in TaskUsers, id \in TaskIds, st \in ReorderStatuses :
          ReorderTask(user, id, st)
    \/ \E user \in TaskUsers, id \in TaskIds, x \in Users : AssignTask(user, id, x)

SpecTask == InitTask /\ [][NextTask]_vars

(* ------------------------------ login ------------------------------------*)
\* login_attempts: the bag of LoginAttempt rows [email, ip_address, success,
\* timestamp]; sessions: the bag of users for whom login() has opened a
\* session (every login request arrives without a session).  In this part
\* the clock now counts minutes.

\* RateLimitService.check_login_rate_limit: its default arguments
window_minutes == 15
max_attempts == 5

\* Rows the login_attempts table holds at most, and the last minute.
MaxAttempts == 6
MaxMinutes == 16

\* The email of the account of v and an email that has no account.
LoginEmails == {<<"v", FALSE>>, <<"z", FALSE>>}
IPs == {"ip1", "ip2"}
Passwords == {"secret", "wrong"}
PasswordOf == [x \in Users |-> "secret"]

\* QuerySet.count() over the rows of a bag that are in S
RECURSIVE CountRows(_, _)
CountRows(B, S) ==
    IF S = {} THEN 0
    ELSE LET r == CHOOSE x \in S : TRUE
         IN CopiesIn(r, B) + CountRows(B, S \ {r})

\* LoginAttempt.objects.filter(email=email, success=False,
\*                             timestamp__gte=window_start).count()
email_attempts(email) ==
    CountRows(login_attempts,
              {r \in BagToSet(login_attempts) :
                  /\ CiEq(r.email, email) /\ ~r.success
                  /\ r.timestamp >= now - window_minutes})

\* LoginAttempt.objects.filter(ip_address=ip_address, success=False,
\*                             timestamp__gte=window_start).count()
ip_attempts(ip) ==
    CountRows(login_attempts,
              {r \in BagToSet(login_attempts) :
                  /\ r.ip_address = ip /\ ~r.success
                  /\ r.timestamp >= now - window_minutes})

\* check_login_rate_limit that lets the attempt at the limit through
check_login_rate_limit_Over(email, ip) ==
    ~(email_attempts(email) > max_attempts \/ ip_attempts(ip) > max_attempts)

\* RateLimitService.check_login_rate_limit: TRUE when within the limit
check_login_rate_limit(email, ip) ==
    ~(email_attempts(email) >= max_attempts \/ ip_attempts(ip) >= max_attempts)

\* django.contrib.auth.authenticate through ModelBackend: the account whose
\* email the database matches, if the password is its password.
authenticate(email, password) ==
    LET x == UserByEmail(email) IN
    IF x # None /\ password = PasswordOf[x] THEN x ELSE None

\* login_view: POST /api/v1/auth/login
login_view(email, ip, password) ==
    /\ BagCardinality(login_attempts) < MaxAttempts
          \/ ~check_login_rate_limit(email, ip)
    /\ IF ~check_login_rate_limit(email, ip)
       THEN /\ resp' = Resp("login", None, None, "rate_limited", email)
            /\ UNCHANGED <<login_attempts, sessions>>
            /\ NoAuditRows
       ELSE LET user == authenticate(email, password) IN
            /\ login_attempts' = login_attempts (+)
                  SetToBag({[email |-> email, ip_address |-> ip,
                             success |-> user # None, timestamp |-> now]})
            /\ IF user # None
               THEN /\ sessions' = sessions (+) SetToBag({user})
                    /\ audit_logs' = log_user_login(user)
                    /\ resp' = Resp("login", user, None, "ok", email)
               ELSE /\ UNCHANGED sessions
                    /\ NoAuditRows
                    /\ resp' = Resp("login", None, None, "unauthorized", email)
    /\ UNCHANGED <<projects, members, invitations, now, tasks, timesheets, approvals>>
    /\ UNCHANGED <<accounts, in_flight>>
    /\ NoHistoryRows

\* Time passes: one minute more than the window.
TickMinutes ==
    /\ now + window_minutes + 1 <= MaxMinutes
    /\ now' = now + window_minutes + 1
    /\ UNCHANGED <<projects, members, invitations, tasks, timesheets, approvals,
                   login_attempts, sessions, resp>>
    /\ UNCHANGED <<accounts, in_flight, audit_logs, task_history>>

NextLogin ==
    \/ \E e \in LoginEmails, ip \in IPs, pw \in Passwords : login_view(e, ip, pw)
    \/ TickMinutes

SpecLogin == InitEmpty /\ [][NextLogin]_vars

\* logout_view: POST /api/v1/auth/logout by a user who has a session
logout_view(user) ==
    /\ BagIn(user, sessions)
    /\ sessions' = sessions (-) SetToBag({user})
    /\ audit_logs' = log_user_logout(user)
    /\ resp' = Resp("logout", user, None, "ok", None)
    /\ UNCHANGED <<projects, members, invitations, now, tasks, timesheets, approvals,
                   login_attempts, accounts, in_flight>>
    /\ NoHistoryRows

(* ---------------- requests during which AuditLog.log raises ---------------*)
\* The receivers call AuditLog.log without catching anything: an exception
\* of objects.create (the audit_logs table cannot be written) leaves the
\* receiver, the signal and the handler.

\* remove_member reaching member.delete(): the post_delete receiver raises
\* inside the transaction of the delete, which is rolled back.
RemoveMemberAuditFails(user, p, target) ==
    /\ get_object(user, "DELETE", "remove_member", p) = "ok"
    /\ MemberRow(p, target) # {}
    /\ resp' = Resp("remove_member", user, p, "server_error", None)
    /\ NoAuditRows
    /\ UNCHANGED <<projects, members>>
    /\ UnchangedInv

\* login_view reaching login(): the LoginAttempt row is already stored, the
\* user_logged_in receiver raises and the session is never saved.
LoginAuditFails(email, ip, password) ==
    /\ BagCardinality(login_attempts) < MaxAttempts
    /\ check_login_rate_limit(email, ip)
    /\ authenticate(email, password) # None
    /\ login_attempts' = login_attempts (+)
          SetToBag({[email |-> email, ip_address |-> ip,
                     success |-> TRUE, timestamp |-> now]})
    /\ resp' = Resp("login", None, None, "server_error", email)
    /\ NoAuditRows
    /\ NoHistoryRows
    /\ UNCHANGED <<projects, members, invitations, now, tasks, timesheets, approvals,
                   sessions, accounts, in_flight>>

\* logout_view: logout() sends user_logged_out before it flushes the
\* session; the receiver raises and the session stays.
LogoutAuditFails(user) ==
    /\ BagIn(user, sessions)
    /\ resp' = Resp("logout", user, None, "server_error", None)
    /\ NoAuditRows
    /\ NoHistoryRows
    /\ UNCHANGED <<projects, members, invitations, now, tasks, timesheets, approvals,
                   login_attempts, sessions, accounts, in_flight>>

\* One project of u with the member v, and the sessions of v.
AuditUsers == {"u", "v"}

NextAudit ==
    \/ \E user \in AuditUsers, c \in CodeInputs \cup {NoCode} : CreateProject(user, None, c)
    \/ \E user \in AuditUsers, p \in NewProjectIds, mgr \in AuditUsers :
          UpdateProject(user, p, mgr)
    \/ \E user \in AuditUsers, p \in NewProjectIds : DestroyProject(user, p)
    \/ \E user \in AuditUsers, p \in NewProjectIds, r \in MemberRoles :
          AddMember(user, p, "v", r)
    \/ \E user \in AuditUsers, p \in NewProjectIds : RemoveMember(user, p, "v")
    \/ \E user \in AuditUsers, p \in NewProjectIds : RemoveMemberAuditFails(user, p, "v")
    \/ \E pw \in Passwords : login_view(EmailOf["v"], "ip1", pw)
    \/ \E pw \in Passwords : LoginAuditFails(EmailOf["v"], "ip1", pw)
    \/ logout_view("v")
    \/ LogoutAuditFails("v")

SpecAudit == InitEmpty /\ [][NextAudit]_vars

(* ------------------------- concurrent requests ---------------------------*)
\* add_member and invite_members read (get_object, the serializer's and the
\* view's existence checks) and then write (objects.create) with no
\* transaction and no row lock in between, so the requests of two workers
\* interleave between the two steps.  Each handler is therefore two actions:
\* ...Check runs the reads and either answers or leaves the request in
\* flight, ...Write runs the create of a request in flight and answers.
MaxInFlight == 2     \* requests between their check and their write

InFlight == Cardinality(in_flight.adds) + Cardinality(in_flight.invites)

UnchangedByRace ==
    /\ UNCHANGED <<projects, now, tasks, timesheets, approvals, login_attempts,
                   sessions, accounts>>
    /\ NoAuditRows
    /\ NoHistoryRows

\* ProjectViewSet.add_member up to the exists() check.
AddMemberCheck(user, p, target, role) ==
    /\ InFlight < MaxInFlight
    /\ LET go == get_object(user, "POST", "add_member", p) IN
       IF go # "ok"
       THEN /\ resp' = Resp("add_member", user, p, go, None)
            /\ UNCHANGED in_flight
       ELSE IF MemberRow(p, target) # {}
       THEN /\ resp' = Resp("add_member", user, p, "bad_request", None)
            /\ UNCHANGED in_flight
       ELSE /\ in_flight' = [in_flight EXCEPT !.adds = @ \cup
                  {[user |-> user, project |-> p, target |-> target, role |-> role]}]
            /\ UNCHANGED resp
    /\ UNCHANGED <<members, invitations>>
    /\ UnchangedByRace

\* ProjectViewSet.add_member from ProjectMember.objects.create on.  The
\* table's unique_together (project, user) refuses a second row with an
\* IntegrityError, which no handler catches and custom_exception_handler
\* does not translate: the answer is a server error.
AddMemberWrite(r) ==
    /\ r \in in_flight.adds
    /\ in_flight' = [in_flight EXCEPT !.adds = @ \ {r}]
    /\ IF MemberRow(r.project, r.target) # {}
       THEN /\ resp' = Resp("add_member", r.user, r.project, "server_error", None)
            /\ UNCHANGED members
       ELSE /\ Cardinality(members) < MaxMembers
            /\ members' = members \cup
                  {[project |-> r.project, user |-> r.target, role |-> r.role,
                    is_active |-> TRUE]}
            /\ resp' = Resp("add_member", r.user, r.project, "ok", None)
    /\ UNCHANGED invitations
    /\ UnchangedByRace

\* ProjectViewSet.invite_members up to serializer.is_valid.
InviteMembersCheck(user, p, emails, role) ==
    /\ InFlight < MaxInFlight
    /\ LET go == get_object(user, "POST", "invite_members", p)
           unique == validate_emails(emails, {})
           v == InviteValidate(p, unique)
           asked == {Lower(e) : e \in Range(emails)}
       IN IF go # "ok"
          THEN /\ resp' = Resp("invite_members", user, p, go, asked)
               /\ UNCHANGED in_flight
          ELSE IF v # "ok"
          THEN /\ resp' = Resp("invite_members", user, p, "bad_request", asked)
               /\ UNCHANGED in_flight
          ELSE /\ in_flight' = [in_flight EXCEPT !.invites = @ \cup
                     {[user |-> user, project |-> p, emails |-> unique, role |-> role]}]
               /\ UNCHANGED resp
    /\ UNCHANGED <<members, invitations>>
    /\ UnchangedByRace

\* ProjectViewSet.invite_members from the loop of
\* ProjectInvitation.objects.create on.  The table has no unique constraint
\* over (project, email, status): every create is stored.
InviteMembersWrite(r) ==
    /\ r \in in_flight.invites
    /\ in_flight' = [in_flight EXCEPT !.invites = @ \ {r}]
    /\ Len(r.emails) <= Cardinality(FreeIds)
    /\ LET ids == TakeIds(FreeIds, Len(r.emails)) IN
       invitations' = invitations \cup
          {NewInvitation(ids[k], r.project, Lower(r.emails[k]), r.role) :
              k \in 1..Len(r.emails)}
    /\ resp' = Resp("invite_members", r.user, r.project, "ok",
                    {Lower(e) : e \in Range(r.emails)})
    /\ UNCHANGED members
    /\ UnchangedByRace

\* The two workers serve the project's LEAD u and the administrator a; the
\* user added or invited is v or the stranger z, and a may remove u or v
\* from the project at any moment.
RaceUsers == {"u", "a"}
RaceEmails == {<<(<<"v", FALSE>>)>>, <<(<<"z", FALSE>>)>>}

NextRace ==
    \/ \E user \in RaceUsers, r \in InviteRoles : AddMemberCheck(user, "p1", "v", r)
    \/ \E r \in in_flight.adds : AddMemberWrite(r)
    \/ \E user \in RaceUsers, es \in RaceEmails, r \in InviteRoles :
          InviteMembersCheck(user, "p1", es, r)
    \/ \E r \in in_flight.invites : InviteMembersWrite(r)
    \/ \E target \in {"u", "v"} : RemoveMember("a", "p1", target)

SpecRace == InitInvite /\ [][NextRace]_vars

(* ------------------------------- users -----------------------------------*)
\* UserViewSet (users/views.py) over the users table.  A request is
\* authenticated by its session, and ModelBackend.get_user gives no user for
\* an inactive account; IsAdmin then asks for the ADMIN role.
Roles == {"ADMIN", "EMPLOYEE"}

IsAdmin(user) == accounts[user].is_active /\ accounts[user].role = "ADMIN"

UnchangedByUsers ==
    /\ UNCHANGED <<projects, members, invitations, now, tasks, timesheets, approvals,
                   login_attempts, sessions, in_flight>>
    /\ NoAuditRows
    /\ NoHistoryRows

\* UserViewSet.update / partial_update with UserUpdateSerializer: PUT or
\* PATCH /users/{id}/ carrying role and is_active (a field the request
\* leaves out keeps its value, which is the request that sends that value).
UpdateUser(user, target, role, is_active) ==
    /\ IF ~IsAdmin(user)
       THEN /\ resp' = Resp("user_update", user, None, "forbidden", target)
            /\ UNCHANGED accounts
       ELSE /\ accounts' = [accounts EXCEPT ![target] =
                               [role |-> role, is_active |-> is_active]]
            /\ resp' = Resp("user_update", user, None, "ok", target)
    /\ UnchangedByUsers

\* UserViewSet.destroy: DELETE /users/{id}/
DestroyUser(user, target) ==
    /\ IF ~IsAdmin(user)
       THEN /\ resp' = Resp("user_destroy", user, None, "forbidden", target)
            /\ UNCHANGED accounts
       ELSE IF target = user
       THEN /\ resp' = Resp("user_destroy", user, None, "bad_request", target)
            /\ UNCHANGED accounts
       ELSE /\ accounts' = [accounts EXCEPT ![target].is_active = FALSE]
            /\ resp' = Resp("user_destroy", user, None, "ok", target)
    /\ UnchangedByUsers

\* UserViewSet.deactivate: POST /users/{id}/deactivate/
DeactivateUser(user, target) ==
    /\ IF ~IsAdmin(user)
       THEN /\ resp' = Resp("user_deactivate", user, None, "forbidden", target)
            /\ UNCHANGED accounts
       ELSE IF target = user
       THEN /\ resp' = Resp("user_deactivate", user, None, "bad_request", target)
            /\ UNCHANGED accounts
       ELSE /\ accounts' = [accounts EXCEPT ![target].is_active = FALSE]
            /\ resp' = Resp("user_deactivate", user, None, "ok", target)
    /\ UnchangedByUsers

\* UserViewSet.activate: POST /users/{id}/activate/
ActivateUser(user, target) ==
    /\ IF ~IsAdmin(user)
       THEN /\ resp' = Resp("user_activate", user, None, "forbidden", target)
            /\ UNCHANGED accounts
       ELSE /\ accounts' = [accounts EXCEPT ![target].is_active = TRUE]
            /\ resp' = Resp("user_activate", user, None, "ok", target)
    /\ UnchangedByUsers

NextUsers ==
    \/ \E user \in Users, target \in Users, role \in Roles, is_active \in BOOLEAN :
          UpdateUser(user, target, role, is_active)
    \/ \E user \in Users, target \in Users : DestroyUser(user, target)
    \/ \E user \in Users, target \in Users : DeactivateUser(user, target)
    \/ \E user \in Users, target \in Users : ActivateUser(user, target)

SpecUsers == InitEmpty /\ [][NextUsers]_vars

(* ------------------------------ claims ----------------------------------*)
IsManagerOrActiveMember(user, p) ==
    \/ projects[p].manager = user
    \/ \E m \in members : m.project = p /\ m.user = user /\ m.is_active

\* C1: the project list returned for a user (list and my_projects) contains
\* a project iff the user is its manager or has an ACTIVE membership row for
\* it; an inactive row does not make the project visible.
C1_ListIffManagerOrActiveMember ==
    resp.op \in {"list", "my_projects"} =>
        \A p \in DOMAIN projects :
            p \in resp.data <=> IsManagerOrActiveMember(resp.user, p)

\* C2: read access to a single project is granted iff the user is its
\* manager or an active member; the ADMIN role alone is not sufficient and a
\* manager without a membership row is still granted access.
C2_RetrieveIffManagerOrActiveMember ==
    (resp.op = "retrieve" /\ resp.project \in DOMAIN projects) =>
        (resp.outcome = "ok" <=> IsManagerOrActiveMember(resp.user, resp.project))

ManageOps == {"update", "destroy", "add_member", "remove_member"}

\* C3: a user may manage a project (update, delete, add or remove members)
\* iff the user's active membership role in it is LEAD; a system ADMIN who
\* is not a LEAD is refused.
C3_ManageIffLead ==
    [][(resp'.op \in ManageOps /\ resp'.project \in DOMAIN projects) =>
          (resp'.outcome # "forbidden"
             <=> ActiveMembership(resp'.project, resp'.user) = "LEAD")]_vars

\* C7: right after a successful project creation the new project has
\* exactly one membership row, and it is (creator, LEAD, active), whether or
\* not a manager or a code was supplied.
C7_CreatorIsTheOnlyMemberAndLead ==
    (resp.op = "create" /\ resp.outcome = "ok") =>
        {m \in members : m.project = resp.project} =
            {[project |-> resp.project, user |-> resp.user,
              role |-> "LEAD", is_active |-> TRUE]}

\* A project was created with a manager other than the creator and with a
\* supplied code.
C7_Witness ==
    /\ resp.op = "create" /\ resp.outcome = "ok"
    /\ projects[resp.project].manager # resp.user
    /\ projects[resp.project].code = <<"X", 0>>
    /\ \E m \in members : m.project = resp.project /\ m.user = resp.user

\* C8: a project that has at least one active member has at least one
\* active member with role LEAD.
C8_ActiveMembersImplyLead ==
    \A p \in DOMAIN projects :
        (\E m \in members : m.project = p /\ m.is_active) =>
        (\E m \in members : m.project = p /\ m.is_active /\ m.role = "LEAD")

SamePendingKey(i, j) ==
    /\ i.status = "PENDING" /\ j.status = "PENDING"
    /\ i.project = j.project /\ CiEq(i.email, j.email)

\* C9: there is at most one PENDING invitation per (project, email), and an
\* invite request naming an e-mail that already has a PENDING invitation
\* for the project fails (with the validation error when the inviter may
\* invite) and creates no invitation.
C9_AtMostOnePendingPerEmail ==
    /\ [](\A i, j \in invitations : SamePendingKey(i, j) => i = j)
    /\ [][(/\ resp'.op = "invite_members" /\ now' = now
           /\ \E i \in invitations :
                 /\ i.status = "PENDING" /\ i.project = resp'.project
                 /\ i.email \in resp'.data)
          => /\ resp'.outcome # "ok"
             /\ invitations' = invitations
             /\ get_object(resp'.user, "POST", "invite_members", resp'.project) = "ok"
                   => resp'.outcome = "bad_request"]_vars

\* An invite by the LEAD was refused because the e-mail has a PENDING
\* invitation, while an older, rejected invitation for the same e-mail and
\* project is still stored.
C9_Witness ==
    /\ resp.op = "invite_members" /\ resp.outcome = "bad_request"
    /\ resp.user = "u"
    /\ \E i, j \in invitations :
          /\ i.email \in resp.data /\ j.email = i.email
          /\ i.project = resp.project /\ j.project = resp.project
          /\ i.status = "PENDING" /\ j.status = "REJECTED"
    /\ \A m \in members : m.user = "u"

C4_ApproveIffAdminOrManager ==
    [][\A t \in timesheets :
          (resp'.op = "ts_approve" /\ resp'.data = t.id) =>
             /\ resp'.outcome \in {"forbidden", "not_found"}
                   <=> ~(RoleOf[resp'.user] = "ADMIN" \/ projects[t.project].manager = resp'.user)
             /\ resp'.outcome \in {"forbidden", "not_found"}
                   => (timesheets' = timesheets /\ approvals' = approvals)]_vars

\* The manager u of p1, an EMPLOYEE, has approved the timesheet that v, a
\* member of p1 who does not manage it, submitted, while a timesheet of u
\* still waits as SUBMITTED.
C4_Witness ==
    /\ resp.op = "ts_approve" /\ resp.outcome = "ok" /\ resp.user = "u"
    /\ \E t \in timesheets :
          /\ t.id = resp.data /\ t.status = "APPROVED"
          /\ t.employee = "v" /\ t.project = "p1"
    /\ \E t \in timesheets : t.status = "SUBMITTED" /\ t.employee = "u"

TaskEditOps == {"task_update", "task_update_status", "task_reorder", "task_assign"}

\* C5: an edit of a task (update, partial_update, update_status, reorder,
\* assign) is accepted iff the acting user is the task's assignee or holds
\* an active LEAD or DEVELOPER row in the task's project; every other user
\* is refused and the task is unchanged. A request that ends in a server
\* error is counted as refused, like a forbidden one.
C5_EditIffAssigneeOrLeadDeveloper ==
    [][\A t \in tasks :
          (resp'.op \in TaskEditOps /\ resp'.data = t.id) =>
             LET may == \/ t.assigned_to = resp'.user
                        \/ get_user_project_role(resp'.user, t.project) \in {"LEAD", "DEVELOPER"}
                 refused == resp'.outcome \in {"forbidden", "server_error"}
             IN /\ may => ~refused
                /\ ~may => refused /\ tasks' = tasks]_vars

\* C6: a task is created in project P only for a user whose active row in
\* P has role LEAD or DEVELOPER, and such a user is never refused.
C6_CreateIffLeadDeveloper ==
    [][(resp'.op = "task_create" /\ resp'.project \in DOMAIN projects) =>
          (resp'.outcome = "ok" /\ tasks' # tasks
             <=> get_user_project_role(resp'.user, resp'.project) \in {"LEAD", "DEVELOPER"})]_vars

\* C11: an accept of a PENDING invitation whose expiry time has passed
\* returns the expired error, leaves the row stored with status EXPIRED and
\* creates no row of project_members.
C11_ExpiredAcceptMarksExpired ==
    [][\A i \in invitations :
          (/\ resp'.op = "accept_invitation" /\ resp'.data = i.id /\ now' = now
           /\ i.status = "PENDING" /\ now > i.expires_at)
          => /\ resp'.outcome = "expired"
             /\ members' = members
             /\ \E j \in invitations' : j.id = i.id /\ j.status = "EXPIRED"]_vars

\* The invited v has tried to accept after the expiry: the row is EXPIRED
\* and v has no membership.
C11_Witness ==
    /\ resp.op = "accept_invitation" /\ resp.outcome = "expired" /\ resp.user = "v"
    /\ \E i \in invitations :
          /\ i.id = resp.data /\ i.status = "EXPIRED" /\ now > i.expires_at
          /\ i.email = EmailOf["v"]
    /\ MemberRow("p1", "v") = {}

\* C12: an accept sent by a user whose e-mail address differs from the
\* invitation's address fails, creates no membership and leaves a PENDING,
\* unexpired invitation PENDING: nobody gets another address's invitation
\* accepted.
C12_AcceptNeedsMatchingEmail ==
    [][\A i \in invitations :
          (/\ resp'.op = "accept_invitation" /\ resp'.data = i.id /\ now' = now
           /\ Lower(EmailOf[resp'.user]) # Lower(i.email))
          => /\ resp'.outcome # "ok"
             /\ members' = members
             /\ (i.status = "PENDING" /\ now <= i.expires_at)
                   => i \in invitations']_vars

\* C13: accepting an unexpired invitation (PENDING, or ACCEPTED already:
\* the same token a second time) whose invited user already has a row in
\* project_members for the project returns no error and leaves exactly one
\* row for (project, user).
C13_AcceptIsIdempotent ==
    [][\A i \in invitations :
          LET invited == UserByEmail(i.email) IN
          (/\ resp'.op = "accept_invitation" /\ resp'.data = i.id /\ now' = now
           /\ i.status \in {"PENDING", "ACCEPTED"} /\ now <= i.expires_at
           /\ invited # None /\ MemberRow(i.project, invited) # {})
          => /\ resp'.outcome = "ok"
             /\ Cardinality({m \in members' :
                                m.project = i.project /\ m.user = invited}) = 1]_vars

AcceptOps == {"accept_invitation", "legacy_accept"}

C15_RejectMarksRejected ==
    [][\A i \in invitations :
          (resp'.op = "reject_invitation" /\ resp'.data = i.id /\ now' = now)
          => /\ members' = members
             /\ \E j \in invitations' :
                   /\ j.id = i.id
                   /\ j.status = IF i.status = "PENDING" THEN "REJECTED" ELSE i.status]_vars

ResendOps == {"resend_invitation", "legacy_resend"}

TsWriteOps == {"ts_update", "ts_destroy"}

\* C17: an update or delete request for a timesheet that is SUBMITTED or
\* APPROVED is refused and leaves every timesheet and approval as it was,
\* whoever sends it (the administrator included); an update with a valid
\* payload or a delete sent by the owner of a DRAFT or REJECTED timesheet is
\* carried out.
C17_ClosedTimesheetsRejectEdits ==
    [][\A t \in timesheets :
          /\ (/\ resp'.op \in TsWriteOps /\ resp'.data = t.id
              /\ t.status \in {"SUBMITTED", "APPROVED"})
             => /\ resp'.outcome # "ok"
                /\ timesheets' = timesheets
                /\ approvals' = approvals
          /\ \A p \in DOMAIN projects, d \in Dates, h \in HoursInputs :
                (/\ t.status \in {"DRAFT", "REJECTED"} /\ hours_valid(h)
                 /\ UpdateTimesheet(t.employee, t.id, p, d, h))
                => /\ resp'.outcome = "ok"
                   /\ [t EXCEPT !.project = p, !.date = d, !.hours = h] \in timesheets'
          /\ (t.status \in {"DRAFT", "REJECTED"} /\ DestroyTimesheet(t.employee, t.id))
                => /\ resp'.outcome = "ok"
                   /\ ~\E x \in timesheets' : x.id = t.id]_vars

\* The administrator has asked to update an APPROVED timesheet and was
\* refused.
C17_Witness ==
    /\ resp.op = "ts_update" /\ resp.user = "a" /\ resp.outcome = "bad_request"
    /\ \E t \in timesheets : t.id = resp.data /\ t.status = "APPROVED"

\* C18: no two timesheets have the same employee, project, task and date
\* (every row of the model has no task).
C18_TimesheetsAreUnique ==
    \A t1, t2 \in timesheets :
        (t1.employee = t2.employee /\ t1.project = t2.project /\ t1.date = t2.date)
        => t1.id = t2.id

\* C19: every stored timesheet has a date that is not after today and hours
\* between 0.5 and 24.
C19_DateNotFutureHoursInRange ==
    \A t \in timesheets : t.date <= now /\ hours_valid(t.hours)

\* The failed attempts recorded for exactly this email in the last 15 minutes
FailedInWindow(email) ==
    CountRows(login_attempts,
              {r \in BagToSet(login_attempts) :
                  r.email = email /\ ~r.success /\ r.timestamp >= now - 15})

\* C20: a login request for an email that has five or more failed attempts
\* in the last 15 minutes is answered as rate limited, with the right
\* password as with a wrong one; it opens no session (and records no
\* attempt).
C20_SixthAttemptIsRateLimited ==
    [][\A e \in LoginEmails, ip \in IPs, pw \in Passwords :
          (FailedInWindow(e) >= 5 /\ login_view(e, ip, pw))
          => /\ resp'.outcome = "rate_limited"
             /\ sessions' = sessions
             /\ login_attempts' = login_attempts]_vars

\* The login for the account of v has just been answered as rate limited
\* while five failed attempts for that email lie within the window.
C20_Witness ==
    /\ resp.op = "login" /\ resp.outcome = "rate_limited"
    /\ UserByEmail(resp.data) = "v"
    /\ FailedInWindow(resp.data) >= 5

\* C21: an update of a project that changes a field appends exactly one
\* audit row, an UPDATE row whose changes are the fields that differ between
\* the row before the update and the row after it, with their old and new
\* values; an update that changes no field appends no audit row.
C21_UpdateIsAuditedWithItsDiff ==
    [][\A p \in DOMAIN projects :
          (resp'.op = "update" /\ resp'.outcome = "ok" /\ resp'.project = p)
          => IF projects'[p] = projects[p]
             THEN audit_logs' = {}
             ELSE /\ Cardinality(audit_logs') = 1
                  /\ \A r \in audit_logs' :
                        /\ r.action = "UPDATE" /\ r.model_name = "Project"
                        /\ r.object_id = <<p>>
                        /\ r.changes = get_model_changes(projects[p], projects'[p])]_vars

\* C22: the creation of a project appends exactly one CREATE audit row for
\* the project (and one for each membership row created with it), each
\* carrying the 'created' marker.
C22_CreateIsAudited ==
    [][(resp'.op = "create" /\ resp'.outcome = "ok")
          => /\ Cardinality({r \in audit_logs' :
                   r.model_name = "Project" /\ r.object_id = <<resp'.project>>}) = 1
             /\ Cardinality({r \in audit_logs' : r.model_name = "ProjectMember"})
                  = Cardinality(members' \ members)
             /\ \A r \in audit_logs' :
                   r.action = "CREATE" /\ r.changes = Marker("created")]_vars

TaskSaveOps == {"task_update", "task_update_status", "task_reorder", "task_assign"}

C24_AuditFailureDoesNotFailTheRequest ==
    [][/\ \A user \in AuditUsers, p \in DOMAIN projects, target \in Users :
            RemoveMemberAuditFails(user, p, target)
            => /\ resp'.outcome = "ok"
               /\ members' = members \ RemovedRows(p, target)
       /\ \A e \in LoginEmails, ip \in IPs, pw \in Passwords :
            LoginAuditFails(e, ip, pw)
            => /\ resp'.outcome = "ok"
               /\ sessions' = sessions (+) SetToBag({authenticate(e, pw)})
       /\ \A user \in AuditUsers :
            LogoutAuditFails(user)
            => /\ resp'.outcome = "ok"
               /\ sessions' = sessions (-) SetToBag({user})]_vars


\* C25: when two requests race to invite one e-mail address to one project,
\* or to add one user to one project, one of them is answered with a
\* conflict: never are two PENDING invitations stored for one (project,
\* email), nor two member rows for one (project, user), and the loser is not
\* answered with a server error.
C25_RacingDuplicatesAreRefused ==
    /\ \A i, j \in invitations :
          (i.project = j.project /\ i.email = j.email
           /\ i.status = "PENDING" /\ j.status = "PENDING") => i = j
    /\ \A m, n \in members : (m.project = n.project /\ m.user = n.user) => m = n
    /\ resp.op \in {"add_member", "invite_members"} => resp.outcome # "server_error"

\* C26: a guarded write takes effect only if the permission it was checked
\* against still holds when it is written: an invitation or a member row is
\* stored for a requester who may still manage the project at that moment.
C26_WriteSeesTheCheckedMembership ==
    [][/\ \A r \in in_flight.invites :
             (InviteMembersWrite(r) /\ invitations' # invitations)
             => has_object_permission(r.user, "POST", "invite_members", r.project)
       /\ \A r \in in_flight.adds :
             (AddMemberWrite(r) /\ members' # members)
             => has_object_permission(r.user, "POST", "add_member", r.project)]_vars


\* C27: a timesheet's status changes only from DRAFT or REJECTED to
\* SUBMITTED and from SUBMITTED to APPROVED or REJECTED; a submit of a
\* timesheet that is neither DRAFT nor REJECTED and an approve or reject of
\* one that is not SUBMITTED are refused and change nothing; the status of
\* an APPROVED timesheet never changes.
StatusSteps ==
    {<<"DRAFT", "SUBMITTED">>, <<"REJECTED", "SUBMITTED">>,
     <<"SUBMITTED", "APPROVED">>, <<"SUBMITTED", "REJECTED">>}

C27_StatusFollowsTheWorkflow ==
    [][\A t \in timesheets :
          /\ \A x \in timesheets' :
                (x.id = t.id /\ x.status # t.status)
                => <<t.status, x.status>> \in StatusSteps
          /\ \A user \in EditUsers :
                (SubmitTimesheet(user, t.id) /\ t.status \notin {"DRAFT", "REJECTED"})
                => resp'.outcome # "ok" /\ timesheets' = timesheets
          /\ \A user \in EditUsers, d \in {"APPROVED", "REJECTED"} :
                (ApproveTimesheet(user, t.id, d) /\ t.status # "SUBMITTED")
                => /\ resp'.outcome # "ok"
                   /\ timesheets' = timesheets
                   /\ approvals' = approvals]_vars

\* The administrator has asked to reject an APPROVED timesheet and was
\* refused.
C27_Witness ==
    /\ resp.op = "ts_approve" /\ resp.user = "a" /\ resp.outcome = "bad_request"
    /\ \E t \in timesheets : t.id = resp.data /\ t.status = "APPROVED"
    /\ \E r \in approvals : r.timesheet = resp.data /\ r.status = "APPROVED"


\* C28: after an update, an update_status or a reorder of a task, the task
\* has a completed_date exactly when its status is COMPLETED.
C28_CompletedDateIffCompleted ==
    [][(/\ resp'.op \in {"task_update", "task_update_status", "task_reorder"}
        /\ resp'.outcome = "ok")
       => \A t \in tasks' :
             t.id = resp'.data
             => ((t.completed_date # << >>) <=> (t.status = "COMPLETED"))]_vars


\* C29: the assignee of every task is nobody or a user with an active
\* member row in the task's project.
C29_AssigneeIsActiveMember ==
    \A t \in tasks :
        t.assigned_to # None
        => \E m \in members :
              m.project = t.project /\ m.user = t.assigned_to /\ m.is_active


\* C30: a request of the user administration never takes the last active
\* ADMIN away, and a request an administrator sends never leaves that
\* administrator's own account inactive.
ActiveAdmins(acc) == {x \in Users : acc[x].is_active /\ acc[x].role = "ADMIN"}

C30_AnActiveAdminRemains ==
    [][/\ ActiveAdmins(accounts) # {} => ActiveAdmins(accounts') # {}
       /\ \A x \in ActiveAdmins(accounts) :
             (resp'.user = x /\ resp' # resp) => accounts'[x].is_active]_vars

====
